---- MODULE Spec2Model ----
(***************************************************************************)
(* XianyuSliderStealth (src/utils/初版.py): the attempt loop of run /      *)
(* solve_slider and the drag executor simulate_slide, as a state machine   *)
(* over the calls made to the page driver.  Every driver call either       *)
(* returns or raises; every random draw is a nondeterministic choice.      *)
(***************************************************************************)
EXTENDS Integers, Sequences, FiniteSets, TLC

\* ------------------------------------------------------------------ bounds
\* max_retries ranges over 0..MaxRetries (the deployment sets it to 1).
MaxRetries == 5
\* A trajectory handed to the drag executor has 2..MaxPoints points.
MaxPoints == 2

\* The most points the while loop of the synthesizer appends before its tail.
MaxRaw == 3

VARIABLES
  pc,             \* position in run / solve_slider / simulate_slide
  browser,        \* self.browser is set
  page,           \* self.page is set
  max_retries,    \* self.max_retries
  attempt,        \* the loop variable of "for attempt in range(max_retries)"
  slide_attempt,  \* self.slide_attempt
  Refresh,        \* self.Refresh
  jitterSet,      \* self._slide_direction / self._y_drift_trend exist
  strategy_name,  \* the sliding mode generate_human_trajectory names
  trajectory,     \* the trajectory of the current attempt
  i,              \* the step index of simulate_slide's loop
  slide_ret,      \* what simulate_slide returned ("none" before it returns)
  ops,            \* the driver calls of the current loop iteration, in order
  navigated,      \* page.get(url) has returned in this session
  driverUsed,     \* some page-driver call was made in this session
  solve_ret,      \* what solve_slider returned: success and cookies_str
  result,         \* what run returned
  found_count,    \* the iterations in which find_slider_elements found the button
  browser_cookies, \* what page.cookies() did in the call whose string run returns
  \* The locals of _get_tracks_internal.  Positions are in 1/10000 of a
  \* unit, velocities in 1/100 of a unit per second, times in 1/100 s.
  distance,            \* the distance to cover
  target_points,       \* target_points (0 for None)
  max_velocity,        \* max_velocity
  acceleration_phase,  \* acceleration_phase
  deceleration_start,  \* deceleration_start
  dt,                  \* dt
  current,             \* current
  old_current,         \* old_current
  velocity,            \* velocity
  tracks,              \* tracks
  cleaned_tracks,      \* cleaned_tracks before the sampling
  \* What calculate_slide_distance reads and returns.
  slider_track,        \* the track element and what its rect gives
  page_size,           \* what self.page.size gives
  final_distance       \* the distance returned (0 before the return)

\* The state of the attempt controller and of the drag executor.
ctlVars == <<pc, browser, page, max_retries, attempt, slide_attempt, Refresh,
             jitterSet, strategy_name, trajectory, i, slide_ret, ops,
             navigated, driverUsed, solve_ret, result, found_count,
             browser_cookies>>

\* The state of the trajectory synthesizer.
synthVars == <<distance, target_points, max_velocity, acceleration_phase,
               deceleration_start, dt, current, old_current, velocity,
               tracks, cleaned_tracks>>

\* The state of the distance estimator.
estVars == <<slider_track, page_size, final_distance>>

vars == <<ctlVars, synthVars, estVars>>

\* --------------------------------------------------------------- helpers
\* One driver call: its name, the horizontal offset of a move, its outcome.
Op(name, dx, res) == [op |-> name, dx |-> dx, res |-> res]

\* The calls named n in a log, as the set of their indices.
At(log, n) == {k \in 1..Len(log) : log[k].op = n}

\* The same, restricted to the calls that ended with outcome r.
AtRes(log, n, r) == {k \in 1..Len(log) : log[k].op = n /\ log[k].res = r}

\* Python's None, a returned string, and "run has not returned yet".
None == [kind |-> "None", val |-> ""]

Str(s) == [kind |-> "str", val |-> s]

Pending == [kind |-> "pending", val |-> ""]

\* What page.cookies() can hand back: dicts with name and value, and entries
\* the isinstance / 'name' in / 'value' in test of the code rejects.
CookieJars ==
  { <<>>,
    << [dict |-> TRUE, name |-> "sid", value |-> "1"],
       [dict |-> TRUE, name |-> "t", value |-> "" ] >>,
    << [dict |-> FALSE, name |-> "", value |-> ""],
       [dict |-> TRUE, name |-> "t", value |-> "9"] >> }

RECURSIVE JoinPairs(_)
\* '; '.join(cookie_pairs)
JoinPairs(pairs) ==
  IF pairs = <<>> THEN ""
  ELSE IF Len(pairs) = 1 THEN pairs[1]
  ELSE pairs[1] \o "; " \o JoinPairs(Tail(pairs))

\* The cookie_pairs list: one "name=value" per well-formed cookie, in order.
CookiePairs(jar) ==
  LET keep == SelectSeq(jar, LAMBDA c : c.dict)
  IN  [k \in 1..Len(keep) |-> keep[k].name \o "=" \o keep[k].value]

\* The pairs joined in the opposite order.
CookieString_Reversed(jar) ==
  LET ps == CookiePairs(jar)
  IN  JoinPairs([k \in 1..Len(ps) |-> ps[Len(ps) + 1 - k]])

\* _get_cookies_after_success for a driver that returns jar.
CookieString(jar) == JoinPairs(CookiePairs(jar))

\* What page.cookies() can do: return a jar or raise.
CookieOutcomes ==
  {[raised |-> FALSE, jar |-> jar] : jar \in CookieJars}
    \cup {[raised |-> TRUE, jar |-> <<>>]}

\* _get_cookies_after_success: the joined pairs, or "" from the except branch
\* when page.cookies() raises.
GetCookiesAfterSuccess(o) == IF o.raised THEN "" ELSE CookieString(o.jar)

\* The strings _get_cookies_after_success can return.
CookieResults == {GetCookiesAfterSuccess(o) : o \in CookieOutcomes}

\* cycle_position and cycle_number of generate_human_trajectory.
CyclePosition(n) == (n - 1) % 3

CycleNumber(n) == ((n - 1) \div 3) + 1

\* The mode tags that stand for the three mode words of the name.
ModeTags == {"cautious", "impatient", "reflective"}

\* The name with the mode taken from n % 3 instead of (n - 1) % 3.
SlidingMode_Shifted(n, refresh) ==
  IF n % 3 = 0 THEN <<"round", ToString(CycleNumber(n)), "cautious">>
  ELSE IF n % 3 = 1 THEN <<"round", ToString(CycleNumber(n)), "impatient">>
  ELSE <<"round", ToString(CycleNumber(n)), "reflective">>

\* sliding_mode of generate_human_trajectory for slide_attempt n, as the
\* sequence of the parts the f-string puts together: the round number and
\* the mode word, and for a later cautious round the refresh tag when
\* self.Refresh is set.
SlidingMode(n, refresh) ==
  IF CyclePosition(n) = 0
    THEN IF CycleNumber(n) = 1
           THEN <<"first", "cautious">>
           ELSE <<"round", ToString(CycleNumber(n)), "cautious">>
                  \o (IF refresh THEN <<"[refresh]">> ELSE <<>>)
  ELSE IF CyclePosition(n) = 1
    THEN <<"round", ToString(CycleNumber(n)), "impatient">>
  ELSE <<"round", ToString(CycleNumber(n)), "reflective">>

\* is_impatient of simulate_slide: the impatient mode word occurs in the
\* name.
IsImpatient(name) == \E k \in 1..Len(name) : name[k] = "impatient"

\* The differences between consecutive trajectory points the model draws
\* from: a step back, a stall and a step forward.
StepDeltas == {-2, 0, 3}

\* The trajectories handed to the drag executor: non-negative positions that
\* start at 0; the second point lies ahead of the first (the cleanup pass
\* keeps no point closer than 1.5 to the one before it), later points may
\* stall or step back.
TrajDomain ==
  UNION { { t \in [1..n -> 0..(3 * n)] :
              /\ t[1] = 0
              /\ t[2] > 0
              /\ \A k \in 1..(n - 1) : t[k + 1] - t[k] \in StepDeltas }
          : n \in 2..MaxPoints }

\* int(x) for x given in tenths: truncation toward zero.
TruncTenths(x) == IF x >= 0 THEN x \div 10 ELSE -((-x) \div 10)

\* ------------------------------------------------------------------- Init
Init ==
  /\ pc = "run"
  /\ browser = FALSE
  /\ page = FALSE
  /\ max_retries \in 0..MaxRetries
  /\ attempt = 0
  /\ slide_attempt = 0
  /\ Refresh = FALSE
  /\ jitterSet = FALSE
  /\ strategy_name = <<>>
  /\ trajectory = <<>>
  /\ i = 0
  /\ slide_ret = "none"
  /\ ops = <<>>
  /\ navigated = FALSE
  /\ driverUsed = FALSE
  /\ solve_ret = [success |-> FALSE, cookies_str |-> None]
  /\ result = Pending
  /\ found_count = 0
  /\ browser_cookies = [raised |-> FALSE, jar |-> <<>>]
  /\ distance = 0
  /\ target_points = 0
  /\ max_velocity = 0
  /\ acceleration_phase = 0
  /\ deceleration_start = 0
  /\ dt = 0
  /\ current = 0
  /\ old_current = 0
  /\ velocity = 0
  /\ tracks = <<>>
  /\ cleaned_tracks = <<>>
  /\ slider_track = [kind |-> "absent", width |-> 0]
  /\ page_size = [raises |-> FALSE, width |-> 0]
  /\ final_distance = 0


\* ------------------------------------------------------- run, solve_slider
\* The outcomes of init_browser: it returns True with browser and tab set, or
\* it fails before Chromium(co) returns, or at browser.latest_tab.
InitOutcomes == {"ok", "no_browser", "no_tab"}

\* Run with the early return dropped: a failed init_browser goes on into
\* solve_slider.
Run_NoEarlyReturn ==
  /\ pc = "run"
  /\ \E o \in InitOutcomes :
       /\ browser' = (o # "no_browser")
       /\ page' = (o = "ok")
  /\ pc' = "solve"
  /\ UNCHANGED <<max_retries, attempt, slide_attempt, Refresh, jitterSet,
                 strategy_name, trajectory, i, slide_ret, ops, navigated,
                 driverUsed, solve_ret, result, found_count, browser_cookies,
                 synthVars, estVars>>

\* run, up to the call of solve_slider: "if not self.browser and not
\* self.init_browser(): return None".
Run ==
  /\ pc = "run"
  /\ IF browser
       THEN /\ pc' = "solve"
            /\ UNCHANGED <<browser, page, result, found_count,
                           browser_cookies>>
       ELSE \E o \in InitOutcomes :
              /\ browser' = (o # "no_browser")
              /\ page' = (o = "ok")
              /\ pc' = IF o = "ok" THEN "solve" ELSE "done"
              /\ result' = IF o = "ok" THEN result ELSE None
  /\ UNCHANGED <<max_retries, attempt, slide_attempt, Refresh, jitterSet,
                 strategy_name, trajectory, i, slide_ret, ops, navigated,
                 driverUsed, solve_ret, found_count, browser_cookies,
                 synthVars, estVars>>

\* solve_slider's entry: without a page it returns (False, None) at once.
SolveEnter ==
  /\ pc = "solve"
  /\ attempt' = 0
  /\ IF page
       THEN pc' = "loop" /\ solve_ret' = solve_ret
       ELSE pc' = "solve_ret" /\ solve_ret' = [success |-> FALSE, cookies_str |-> None]
  /\ UNCHANGED <<browser, page, max_retries, slide_attempt, Refresh,
                 jitterSet, strategy_name, trajectory, i, slide_ret, ops,
                 navigated, driverUsed, result, found_count, browser_cookies,
                 synthVars, estVars>>

\* One pass through the head of a for loop over a range, more telling
\* whether the range has a next value: the next iteration starts (with an
\* empty log and fresh locals), or the loop is exhausted and solve_slider
\* returns (False, None).
ForRange(more) ==
  /\ pc = "loop"
  /\ IF more
       THEN /\ pc' = "engage"
            /\ solve_ret' = solve_ret
            /\ ops' = <<>>
            /\ strategy_name' = <<>>
            /\ trajectory' = <<>>
            /\ i' = 0
            /\ slide_ret' = "none"
       ELSE /\ pc' = "solve_ret"
            /\ solve_ret' = [success |-> FALSE, cookies_str |-> None]
            /\ UNCHANGED <<ops, strategy_name, trajectory, i, slide_ret>>
  /\ UNCHANGED <<browser, page, max_retries, attempt, slide_attempt, Refresh,
                 jitterSet, navigated, driverUsed, result, found_count,
                 browser_cookies,
                 synthVars, estVars>>

\* The loop head with an off-by-one bound: range(max_retries + 1).
LoopHead_OffByOne == ForRange(attempt <= max_retries)

\* The head of "for attempt in range(self.max_retries)".
LoopHead == ForRange(attempt < max_retries)

\* First iteration: page.get(url), then the trace injection (which swallows
\* its own errors).  A raising page.get leaves the try block.
Navigate ==
  /\ pc = "engage"
  /\ attempt = 0
  /\ \E r \in {"ok", "raise"} :
       /\ ops' = Append(ops, Op("navigate", 0, r))
       /\ navigated' = (navigated \/ r = "ok")
       /\ pc' = IF r = "ok" THEN "locate" ELSE "except"
  /\ driverUsed' = TRUE
  /\ UNCHANGED <<browser, page, max_retries, attempt, slide_attempt, Refresh,
                 jitterSet, strategy_name, trajectory, i, slide_ret,
                 solve_ret, result, found_count, browser_cookies,
                 synthVars, estVars>>

\* Reload that forgets "self.Refresh = False".
Reload_KeepsFlag ==
  /\ pc = "engage"
  /\ attempt # 0
  /\ Refresh
  /\ \E r \in {"ok", "raise"} :
       /\ ops' = Append(ops, Op("reload", 0, r))
       /\ pc' = IF r = "ok" THEN "locate" ELSE "except"
  /\ driverUsed' = TRUE
  /\ UNCHANGED <<browser, page, max_retries, attempt, slide_attempt, Refresh,
                 jitterSet, strategy_name, trajectory, i, slide_ret,
                 navigated, solve_ret, result, found_count, browser_cookies,
                 synthVars, estVars>>

\* Later iteration with self.Refresh set: page.refresh(), then the flag is
\* cleared.  A raising page.refresh leaves the try block with the flag set.
Reload ==
  /\ pc = "engage"
  /\ attempt # 0
  /\ Refresh
  /\ \E r \in {"ok", "raise"} :
       /\ ops' = Append(ops, Op("reload", 0, r))
       /\ Refresh' = (r # "ok")
       /\ pc' = IF r = "ok" THEN "locate" ELSE "except"
  /\ driverUsed' = TRUE
  /\ UNCHANGED <<browser, page, max_retries, attempt, slide_attempt,
                 jitterSet, strategy_name, trajectory, i, slide_ret,
                 navigated, solve_ret, result, found_count, browser_cookies,
                 synthVars, estVars>>

\* Later iteration without the flag: _click_retry_button, which clicks the
\* first retry control it finds, or waits, and swallows every error.
RetryClick ==
  /\ pc = "engage"
  /\ attempt # 0
  /\ ~Refresh
  /\ ops' = Append(ops, Op("retryclick", 0, "ok"))
  /\ pc' = "locate"
  /\ driverUsed' = TRUE
  /\ UNCHANGED <<browser, page, max_retries, attempt, slide_attempt, Refresh,
                 jitterSet, strategy_name, trajectory, i, slide_ret,
                 navigated, solve_ret, result, found_count, browser_cookies,
                 synthVars, estVars>>

\* find_slider_elements: the button (with or without its track), or
\* (None, None) when the wait finds nothing or raises.
LocateOutcomes == {"found", "none"}

\* Locate that counts the attempt before it looks at the button.
Locate_CountsAlways ==
  /\ pc = "locate"
  /\ \E r \in {"found", "none"} :
       /\ ops' = Append(ops, Op("locate", 0, r))
       /\ pc' = IF r = "none" THEN "nf_oracle" ELSE "strategy"
       /\ found_count' = IF r = "none" THEN found_count ELSE found_count + 1
  /\ slide_attempt' = slide_attempt + 1
  /\ driverUsed' = TRUE
  /\ UNCHANGED <<browser, page, max_retries, attempt, Refresh, jitterSet,
                 strategy_name, trajectory, i, slide_ret, navigated,
                 solve_ret, result, browser_cookies,
                 synthVars, estVars>>

\* Locating the control; when it is found the attempt is counted
\* (self.slide_attempt += 1) and the distance is estimated, which never
\* raises; when it is not, the failure oracle decides.
Locate ==
  /\ pc = "locate"
  /\ \E r \in LocateOutcomes :
       /\ ops' = Append(ops, Op("locate", 0, r))
       /\ slide_attempt' = IF r = "none" THEN slide_attempt ELSE slide_attempt + 1
       /\ pc' = IF r = "none" THEN "nf_oracle" ELSE "strategy"
       /\ found_count' = IF r = "none" THEN found_count ELSE found_count + 1
  /\ driverUsed' = TRUE
  /\ UNCHANGED <<browser, page, max_retries, attempt, Refresh, jitterSet,
                 strategy_name, trajectory, i, slide_ret, navigated,
                 solve_ret, result, browser_cookies,
                 synthVars, estVars>>

\* check_verification_failure: it reports failure ("fail": the intercept
\* title or a visible error element), finds no failure signal ("clear"), or
\* one of its driver calls raises ("error"), which it swallows.
OracleOutcomes == {"fail", "clear", "error"}

\* The value check_verification_failure returns for an outcome: True only
\* for a failure signal it saw; a swallowed error falls through to False.
ReportsFailure(o) == o = "fail"

\* A success that does not return: the loop goes on after it.
ReturnSuccess_Continues ==
  /\ pc' = "loop"
  /\ \E c \in CookieResults : solve_ret' = [success |-> TRUE, cookies_str |-> Str(c)]
  /\ attempt' = attempt + 1

\* "return True, self._get_cookies_after_success()".
ReturnSuccess ==
  /\ pc' = "solve_ret"
  /\ \E c \in CookieResults : solve_ret' = [success |-> TRUE, cookies_str |-> Str(c)]
  /\ attempt' = attempt

\* The loop iteration ends without a return: the next value of range().
NextIteration ==
  /\ pc' = "loop"
  /\ attempt' = attempt + 1
  /\ solve_ret' = solve_ret

\* An iteration that counts itself although the control was not found.
NotFoundCheck_Counts ==
  /\ pc = "nf_oracle"
  /\ \E o \in OracleOutcomes :
       /\ ops' = Append(ops, Op("oracle", 0, o))
       /\ IF ~ReportsFailure(o) THEN ReturnSuccess ELSE NextIteration
  /\ driverUsed' = TRUE
  /\ slide_attempt' = slide_attempt + 1
  /\ UNCHANGED <<browser, page, max_retries, Refresh,
                 jitterSet, strategy_name, trajectory, i, slide_ret,
                 navigated, result, found_count, browser_cookies,
                 synthVars, estVars>>

\* Control not found: no failure reported means success without a drag,
\* otherwise "continue".
NotFoundCheck ==
  /\ pc = "nf_oracle"
  /\ \E o \in OracleOutcomes :
       /\ ops' = Append(ops, Op("oracle", 0, o))
       /\ IF ~ReportsFailure(o) THEN ReturnSuccess ELSE NextIteration
  /\ driverUsed' = TRUE
  /\ UNCHANGED <<browser, page, max_retries, slide_attempt, Refresh,
                 jitterSet, strategy_name, trajectory, i, slide_ret,
                 navigated, result, found_count, browser_cookies,
                 synthVars, estVars>>

\* The refresh decision taken in every cautious round, the first included.
GenerateTrajectory_AnyRound ==
  /\ pc = "strategy"
  /\ IF CyclePosition(slide_attempt) = 0
       THEN \E draw \in BOOLEAN : Refresh' = (Refresh \/ draw)
       ELSE Refresh' = Refresh
  /\ strategy_name' = SlidingMode(slide_attempt, Refresh')
  /\ trajectory' \in TrajDomain
  /\ pc' = "hover"
  /\ UNCHANGED <<browser, page, max_retries, attempt, slide_attempt, jitterSet,
                 i, slide_ret, ops, navigated, driverUsed, solve_ret, result,
                 found_count, browser_cookies,
                 synthVars, estVars>>

\* generate_human_trajectory: the refresh decision (a random draw against a
\* positive probability, only at the start of a later cautious phase), the
\* mode, and the trajectory of _get_tracks_internal.
GenerateTrajectory ==
  /\ pc = "strategy"
  /\ IF CyclePosition(slide_attempt) = 0 /\ CycleNumber(slide_attempt) > 1
       THEN \E draw \in BOOLEAN : Refresh' = (Refresh \/ draw)
       ELSE Refresh' = Refresh
  /\ strategy_name' = SlidingMode(slide_attempt, Refresh')
  /\ trajectory' \in TrajDomain
  /\ pc' = "hover"
  /\ UNCHANGED <<browser, page, max_retries, attempt, slide_attempt,
                 jitterSet, i, slide_ret, ops, navigated, driverUsed,
                 solve_ret, result, found_count, browser_cookies,
                 synthVars, estVars>>

\* No handler at the iteration boundary: the exception leaves solve_slider
\* and run.
Except_Propagates ==
  /\ pc = "except"
  /\ pc' = "done"
  /\ result' = [kind |-> "raised", val |-> ""]
  /\ UNCHANGED <<browser, page, max_retries, attempt, slide_attempt, Refresh,
                 jitterSet, strategy_name, trajectory, i, slide_ret, ops,
                 navigated, driverUsed, solve_ret, found_count,
                 browser_cookies,
                 synthVars, estVars>>

\* The try block of the iteration caught an exception: it is logged and the
\* loop goes on.
Except ==
  /\ pc = "except"
  /\ NextIteration
  /\ UNCHANGED <<browser, page, max_retries, slide_attempt, Refresh,
                 jitterSet, strategy_name, trajectory, i, slide_ret, ops,
                 navigated, driverUsed, result, found_count, browser_cookies,
                 synthVars, estVars>>

\* run after solve_slider: on success it returns a fresh
\* _get_cookies_after_success(), otherwise None; close_browser changes
\* nothing.  The log of the last iteration and the locals of solve_slider end
\* with the call.
RunReturn ==
  /\ pc = "solve_ret"
  /\ IF solve_ret.success
       THEN \E o \in CookieOutcomes :
              /\ browser_cookies' = o
              /\ result' = Str(GetCookiesAfterSuccess(o))
       ELSE result' = None /\ browser_cookies' = browser_cookies
  /\ pc' = "done"
  /\ ops' = <<>>
  /\ strategy_name' = <<>>
  /\ trajectory' = <<>>
  /\ i' = 0
  /\ slide_ret' = "none"
  /\ UNCHANGED <<browser, page, max_retries, attempt, slide_attempt, Refresh,
                 jitterSet, navigated, driverUsed, solve_ret, found_count,
                 synthVars, estVars>>


\* ----------------------------------------------------------- simulate_slide
\* A drag that starts by clearing self.Refresh.
Hover_ClearsFlag ==
  /\ pc = "hover"
  /\ \E r \in {"ok", "raise"} :
       /\ ops' = Append(ops, Op("hover", 0, r))
       /\ pc' = IF r = "ok" THEN "hold" ELSE "fallback"
  /\ Refresh' = FALSE
  /\ UNCHANGED <<browser, page, max_retries, attempt, slide_attempt,
                 jitterSet, strategy_name, trajectory, i, slide_ret,
                 navigated, driverUsed, solve_ret, result, found_count,
                 browser_cookies,
                 synthVars, estVars>>

\* The approach moves (_simulate_page_entry and the two after it swallow
\* their errors), then slider_button.hover(); a raising hover goes to the
\* except branch of simulate_slide.
Hover ==
  /\ pc = "hover"
  /\ \E r \in {"ok", "raise"} :
       /\ ops' = Append(ops, Op("hover", 0, r))
       /\ pc' = IF r = "ok" THEN "hold" ELSE "fallback"
  /\ UNCHANGED <<browser, page, max_retries, attempt, slide_attempt, Refresh,
                 jitterSet, strategy_name, trajectory, i, slide_ret,
                 navigated, driverUsed, solve_ret, result, found_count,
                 browser_cookies,
                 synthVars, estVars>>

\* page.actions.hold(slider_button) inside the try block.
Hold ==
  /\ pc = "hold"
  /\ \E r \in {"ok", "raise"} :
       /\ ops' = Append(ops, Op("hold", 0, r))
       /\ pc' = IF r = "ok" THEN "steps" ELSE "fallback"
  /\ i' = 0
  /\ UNCHANGED <<browser, page, max_retries, attempt, slide_attempt, Refresh,
                 jitterSet, strategy_name, trajectory, slide_ret, navigated,
                 driverUsed, solve_ret, result, found_count, browser_cookies,
                 synthVars, estVars>>

\* The except branch without its "return False": the step loop runs although
\* the direct hold raised.
FallbackHold_NoReturn ==
  /\ pc = "fallback"
  /\ \E r \in {"ok", "raise"} : ops' = Append(ops, Op("hold", 0, r))
  /\ pc' = "steps"
  /\ i' = 0
  /\ UNCHANGED <<browser, page, max_retries, attempt, slide_attempt, Refresh,
                 jitterSet, strategy_name, trajectory, slide_ret, navigated,
                 driverUsed, solve_ret, result, found_count, browser_cookies,
                 synthVars, estVars>>

\* The except branch: a direct hold; when that raises too, simulate_slide
\* returns False, and solve_slider, which does not read the value, goes on to
\* check_verification_success.
FallbackHold ==
  /\ pc = "fallback"
  /\ \E r \in {"ok", "raise"} :
       /\ ops' = Append(ops, Op("hold", 0, r))
       /\ pc' = IF r = "ok" THEN "steps" ELSE "verify"
       /\ slide_ret' = IF r = "ok" THEN slide_ret ELSE "False"
  /\ i' = 0
  /\ UNCHANGED <<browser, page, max_retries, attempt, slide_attempt, Refresh,
                 jitterSet, strategy_name, trajectory, navigated, driverUsed,
                 solve_ret, result, found_count, browser_cookies,
                 synthVars, estVars>>

\* offset_x of step n (0-based, as in the code): the first value, then the
\* forward difference of the trajectory.
OffsetX(t, n) == IF n = 0 THEN t[1] ELSE t[n + 1] - t[n]

\* "0.4 < progress < 0.8" for progress = n / len(trajectory).
MidGesture(t, n) == 4 * Len(t) < 10 * n /\ 10 * n < 8 * Len(t)

\* The draw of retreat_distance = uniform(1, 3) the model makes, in tenths.
RetreatDraws == {17}

\* The draws of adj_dist = uniform(-3, 5) the model makes, in tenths.
AdjustDraws == {-26, 47}

\* A step loop that leaves simulate_slide after its last step, without the
\* release.
AfterStep_SkipsRelease(n) == IF n + 1 < Len(trajectory) THEN "steps" ELSE "verify"

\* Where the step loop goes after step n.
AfterStep(n) == IF n + 1 < Len(trajectory) THEN "steps" ELSE "release"

\* A skip that does not advance the step index (a "continue" in a loop that
\* increments by hand).
SkipStep_NoAdvance ==
  /\ pc = "steps"
  /\ OffsetX(trajectory, i) = 0
  /\ UNCHANGED vars

\* "if abs(offset_x) < 0.1: continue".
SkipStep ==
  /\ pc = "steps"
  /\ OffsetX(trajectory, i) = 0
  /\ i' = i + 1
  /\ pc' = AfterStep(i)
  /\ UNCHANGED <<browser, page, max_retries, attempt, slide_attempt, Refresh,
                 jitterSet, strategy_name, trajectory, slide_ret, ops,
                 navigated, driverUsed, solve_ret, result, found_count,
                 browser_cookies,
                 synthVars, estVars>>

\* The moves of one step that is not skipped: with hes = 0 the forward move
\* alone, otherwise the hesitation micro-move (its error is swallowed) and the
\* forward move of offset_x + retreat_distance.
StepMoves(dx, hes, rh, rm) ==
  IF hes = 0
    THEN << Op("move", dx, rm) >>
    ELSE << Op("hesitate", TruncTenths(-hes), rh),
            Op("move", TruncTenths(10 * dx + hes), rm) >>

\* The step without the test of the delta: a step whose delta is zero moves
\* like any other.
MoveStep_AnyDelta ==
  /\ pc = "steps"
  /\ IF i # 1 /\ ~jitterSet
       THEN /\ pc' = "except"
            /\ UNCHANGED <<i, ops, jitterSet, found_count, browser_cookies>>
       ELSE /\ jitterSet' = TRUE
            /\ \E hes \in {0} \cup RetreatDraws, rh \in {"ok", "raise"}, rm \in {"ok", "raise"} :
                 /\ hes # 0 => ~IsImpatient(strategy_name) /\ MidGesture(trajectory, i)
                 /\ hes = 0 => rh = "ok"
                 /\ ops' = ops \o StepMoves(OffsetX(trajectory, i), hes, rh, rm)
            /\ i' = i + 1
            /\ pc' = AfterStep(i)
  /\ UNCHANGED <<browser, page, max_retries, attempt, slide_attempt, Refresh,
                 strategy_name, trajectory, slide_ret, navigated, driverUsed,
                 solve_ret, result, found_count, browser_cookies,
                 synthVars, estVars>>

\* One step that is not skipped.  Step 1 draws the direction and the drift
\* trend; any other step reads them, which raises AttributeError out of
\* simulate_slide when they were never set.  A raising forward move is
\* logged and the loop continues.
MoveStep ==
  /\ pc = "steps"
  /\ OffsetX(trajectory, i) # 0
  /\ IF i # 1 /\ ~jitterSet
       THEN /\ pc' = "except"
            /\ UNCHANGED <<i, ops, jitterSet, found_count, browser_cookies>>
       ELSE /\ jitterSet' = TRUE
            /\ \E hes \in {0} \cup RetreatDraws, rh \in {"ok", "raise"}, rm \in {"ok", "raise"} :
                 /\ hes # 0 => ~IsImpatient(strategy_name) /\ MidGesture(trajectory, i)
                 /\ hes = 0 => rh = "ok"
                 /\ ops' = ops \o StepMoves(OffsetX(trajectory, i), hes, rh, rm)
            /\ i' = i + 1
            /\ pc' = AfterStep(i)
  /\ UNCHANGED <<browser, page, max_retries, attempt, slide_attempt, Refresh,
                 strategy_name, trajectory, slide_ret, navigated, driverUsed,
                 solve_ret, result, found_count, browser_cookies,
                 synthVars, estVars>>

\* A release that is left out when a forward move of the step loop raised.
Release_SkippedAfterFailure ==
  /\ pc = "release"
  /\ \E adj \in {<<FALSE, 0>>} \cup {<<TRUE, a>> : a \in AdjustDraws},
        ra \in {"ok", "raise"}, r \in {"ok", "raise"} :
       /\ adj[1] => ~IsImpatient(strategy_name)
       /\ ~adj[1] => ra = "ok"
       /\ ops' = ops \o (IF adj[1] THEN << Op("adjust", TruncTenths(adj[2]), ra) >> ELSE <<>>)
                     \o (IF AtRes(ops, "move", "raise") # {} THEN <<>>
                         ELSE << Op("release", 0, r) >>)
       /\ pc' = IF r = "ok" THEN "verify" ELSE "except"
       /\ slide_ret' = IF r = "ok" THEN "True" ELSE slide_ret
  /\ UNCHANGED <<browser, page, max_retries, attempt, slide_attempt, Refresh,
                 jitterSet, strategy_name, trajectory, i, navigated,
                 driverUsed, solve_ret, result, found_count, browser_cookies,
                 synthVars, estVars>>

\* The release: impatient mode releases after a pause; the other modes may
\* first make a corrective move (its error is swallowed).  A raising release
\* leaves simulate_slide; otherwise the post-verification moves follow (they
\* swallow their errors) and simulate_slide returns True.
Release ==
  /\ pc = "release"
  /\ \E adj \in {<<FALSE, 0>>} \cup {<<TRUE, a>> : a \in AdjustDraws},
        ra \in {"ok", "raise"}, r \in {"ok", "raise"} :
       /\ adj[1] => ~IsImpatient(strategy_name)
       /\ ~adj[1] => ra = "ok"
       /\ ops' = ops \o (IF adj[1] THEN << Op("adjust", TruncTenths(adj[2]), ra) >> ELSE <<>>)
                     \o << Op("release", 0, r) >>
       /\ pc' = IF r = "ok" THEN "verify" ELSE "except"
       /\ slide_ret' = IF r = "ok" THEN "True" ELSE slide_ret
  /\ UNCHANGED <<browser, page, max_retries, attempt, slide_attempt, Refresh,
                 jitterSet, strategy_name, trajectory, i, navigated,
                 driverUsed, solve_ret, result, found_count, browser_cookies,
                 synthVars, estVars>>

\* Verification without the "not": a reported failure is taken for success.
Verify_Inverted ==
  /\ pc = "verify"
  /\ \E o \in OracleOutcomes :
       /\ ops' = Append(ops, Op("oracle", 0, o))
       /\ IF ReportsFailure(o) THEN ReturnSuccess ELSE NextIteration
  /\ UNCHANGED <<browser, page, max_retries, slide_attempt, Refresh,
                 jitterSet, strategy_name, trajectory, i, slide_ret,
                 navigated, driverUsed, result, found_count, browser_cookies,
                 synthVars, estVars>>

\* check_verification_success: the settle wait, then "not
\* check_verification_failure()"; success returns the cookies, failure is
\* logged and the iteration ends.
Verify ==
  /\ pc = "verify"
  /\ \E o \in OracleOutcomes :
       /\ ops' = Append(ops, Op("oracle", 0, o))
       /\ IF ~ReportsFailure(o) THEN ReturnSuccess ELSE NextIteration
  /\ UNCHANGED <<browser, page, max_retries, slide_attempt, Refresh,
                 jitterSet, strategy_name, trajectory, i, slide_ret,
                 navigated, driverUsed, result, found_count, browser_cookies,
                 synthVars, estVars>>

\* ------------------------------------------------------------ specification
Next ==
  \/ Run
  \/ SolveEnter
  \/ LoopHead
  \/ Navigate
  \/ Reload
  \/ RetryClick
  \/ Locate
  \/ NotFoundCheck
  \/ GenerateTrajectory
  \/ Hover
  \/ Hold
  \/ FallbackHold
  \/ SkipStep
  \/ MoveStep
  \/ Release
  \/ Verify
  \/ Except
  \/ RunReturn

Spec == Init /\ [][Next]_vars


\* The single-threaded program always takes its next step: every call
\* returns or raises.
LiveSpec == Spec /\ WF_vars(Next)

\* --------------------------------------------------- _get_tracks_internal
\* One unit of position in the fixed-point scale of the synthesizer.
Unit == 10000

Min(a, b) == IF a < b THEN a ELSE b

Max(a, b) == IF a > b THEN a ELSE b

\* The distances and point counts the main loop is run on, and the draws of
\* max_velocity and of the two phase factors (in percent).
LoopDistances == {52 * Unit, 60 * Unit}

LoopPoints == {3}

MaxVelocityDraws == {8000}

PhaseDraws == {<<30, 60>>, <<60, 60>>, <<60, 85>>}

\* dt for a point count: base_dt = distance / (target_points * max_velocity
\* * 0.5), scaled by a factor (in percent) and clamped to [0.01, 0.2].
DtOf(d, points, mv, factor) ==
  Max(1, Min(20, (((2 * d) \div (points * mv)) * factor) \div 100))

\* The object as __init__ leaves it, with control at position p of the
\* synthesizer.
CtlAt(p) ==
  /\ pc = p
  /\ browser = FALSE
  /\ page = FALSE
  /\ max_retries = 1
  /\ attempt = 0
  /\ slide_attempt = 0
  /\ Refresh = FALSE
  /\ jitterSet = FALSE
  /\ strategy_name = <<>>
  /\ trajectory = <<>>
  /\ i = 0
  /\ slide_ret = "none"
  /\ ops = <<>>
  /\ navigated = FALSE
  /\ driverUsed = FALSE
  /\ solve_ret = [success |-> FALSE, cookies_str |-> None]
  /\ result = Pending
  /\ found_count = 0
  /\ browser_cookies = [raised |-> FALSE, jar |-> <<>>]

\* _get_tracks_internal up to its while loop: the parameters are drawn,
\* current and velocity are 0.0 and tracks holds the starting point.
LoopInit ==
  /\ CtlAt("synth_loop")
  /\ distance \in LoopDistances
  /\ target_points \in LoopPoints
  /\ max_velocity \in MaxVelocityDraws
  /\ \E ph \in PhaseDraws :
       /\ acceleration_phase = (distance * ph[1]) \div 100
       /\ deceleration_start = (distance * ph[2]) \div 100
  /\ \E factor \in {80, 120} :
       dt = DtOf(distance, target_points, max_velocity, factor)
  /\ current = 0
  /\ old_current = 0
  /\ velocity = 0
  /\ tracks = <<0>>
  /\ cleaned_tracks = <<>>
  /\ slider_track = [kind |-> "absent", width |-> 0]
  /\ page_size = [raises |-> FALSE, width |-> 0]
  /\ final_distance = 0

\* target_accel by phase: U(15, 35), U(-2, 2), U(-25, -8).
AccelDraws(cur) ==
  IF cur < acceleration_phase THEN {25}
  ELSE IF cur < deceleration_start THEN {-2, 2}
  ELSE {-25}

\* The draws of the slip U(1.0, 4.0), of the step after a slip behind the
\* old position U(0.1, 0.8), and of the capped step U(8, 15).
SlipDraws == {Unit, 4 * Unit}

FixDraws == {Unit \div 10, (8 * Unit) \div 10}

CapDraws == {8 * Unit, 15 * Unit}

\* velocity * 0.95 + target_accel * dt, clamped to [0, max_velocity].
NextVelocity(v, a) == Max(0, Min(((v * 95) \div 100) + a * dt, max_velocity))

\* The position after one pass without the test "current < old_current".
NextCurrent_NoFix(old, v, slip, fix, cap) ==
  LET moved   == old + v * dt
      slipped == IF slip # 0 /\ moved > 50 * Unit THEN moved - slip ELSE moved
  IN  IF slipped - old > 15 * Unit THEN old + cap ELSE slipped

\* The position after one pass of the loop body from old, for the velocity
\* v and the draws: the slip applies with probability 0.12 above 50 units,
\* a position behind the old one is replaced, a step over 15 is capped.
NextCurrent(old, v, slip, fix, cap) ==
  LET moved   == old + v * dt
      slipped == IF slip # 0 /\ moved > 50 * Unit THEN moved - slip ELSE moved
      forward == IF slipped < old THEN old + fix ELSE slipped
  IN  IF forward - old > 15 * Unit THEN old + cap ELSE forward

\* One pass of "while current < distance".  The point appended to tracks is
\* not kept here: neither the guard nor the body reads tracks.
SynthStep ==
  /\ pc = "synth_loop"
  /\ current < distance
  /\ \E a \in AccelDraws(current), slip \in {0} \cup SlipDraws,
        fix \in FixDraws, cap \in CapDraws :
       /\ velocity' = NextVelocity(velocity, a)
       /\ old_current' = current
       /\ current' = NextCurrent(current, velocity', slip, fix, cap)
  /\ UNCHANGED <<ctlVars, distance, target_points, max_velocity,
                 acceleration_phase, deceleration_start, dt, tracks,
                 cleaned_tracks,
                 estVars>>

\* The guard of the while loop fails: the loop is left.
SynthLoopExit ==
  /\ pc = "synth_loop"
  /\ current >= distance
  /\ pc' = "synth_tail"
  /\ UNCHANGED <<browser, page, max_retries, attempt, slide_attempt, Refresh,
                 jitterSet, strategy_name, trajectory, i, slide_ret, ops,
                 navigated, driverUsed, solve_ret, result, found_count,
                 browser_cookies,
                 synthVars, estVars>>

LoopNext ==
  \/ SynthStep
  \/ SynthLoopExit

\* The main loop of the synthesizer on its own.
LoopSpec == LoopInit /\ [][LoopNext]_vars

\* The loop always takes its next pass.
LoopLiveSpec == LoopSpec /\ WF_vars(LoopNext)

\* ------------------------------- one pass of the loop, far into a drag
\* A distance of the estimator's range, long enough for the velocity to
\* come near max_velocity within the acceleration phase.
PassDistances == {600 * Unit}

\* _get_tracks_internal up to its while loop, as in LoopInit, for the long
\* distance.
PassInit ==
  /\ CtlAt("synth_pass")
  /\ distance \in PassDistances
  /\ target_points \in LoopPoints
  /\ max_velocity \in MaxVelocityDraws
  /\ \E ph \in PhaseDraws :
       /\ acceleration_phase = (distance * ph[1]) \div 100
       /\ deceleration_start = (distance * ph[2]) \div 100
  /\ \E factor \in {80, 120} :
       dt = DtOf(distance, target_points, max_velocity, factor)
  /\ current = 0
  /\ velocity = 0
  /\ old_current = 0
  /\ tracks = <<0>>
  /\ cleaned_tracks = <<>>
  /\ slider_track = [kind |-> "absent", width |-> 0]
  /\ page_size = [raises |-> FALSE, width |-> 0]
  /\ final_distance = 0

\* A pass of the loop in which random.random() draws no slip, target_accel
\* is the largest of its draws and a capped step the longest one; the loop
\* goes on.
FreePass ==
  /\ pc = "synth_pass"
  /\ current < distance
  /\ \E a \in {x \in AccelDraws(current) : \A y \in AccelDraws(current) : x >= y} :
       /\ velocity' = NextVelocity(velocity, a)
       /\ old_current' = current
       /\ current' = NextCurrent(current, velocity', 0, 0, 15 * Unit)
  /\ UNCHANGED <<ctlVars, distance, target_points, max_velocity,
                 acceleration_phase, deceleration_start, dt, tracks,
                 cleaned_tracks, estVars>>

\* A pass of the loop with any draws, the last one followed here.
SynthPass ==
  /\ pc = "synth_pass"
  /\ current < distance
  /\ \E a \in AccelDraws(current), slip \in {0} \cup SlipDraws,
        fix \in FixDraws, cap \in CapDraws :
       /\ velocity' = NextVelocity(velocity, a)
       /\ old_current' = current
       /\ current' = NextCurrent(current, velocity', slip, fix, cap)
  /\ pc' = "synth_pass_done"
  /\ UNCHANGED <<browser, page, max_retries, attempt, slide_attempt, Refresh,
                 jitterSet, strategy_name, trajectory, i, slide_ret, ops,
                 navigated, driverUsed, solve_ret, result, found_count,
                 browser_cookies, distance, target_points, max_velocity,
                 acceleration_phase, deceleration_start, dt, tracks,
                 cleaned_tracks, estVars>>

PassNext ==
  \/ FreePass
  \/ SynthPass

\* The slip-free run of the loop for a long distance, and one pass with any
\* draws from each of its states.
PassSpec == PassInit /\ [][PassNext]_vars

\* ------------------------------------- the tail of _get_tracks_internal
\* The distances and point counts the tail is run on (0 stands for None).
TailDistances == {3 * Unit, (45 * Unit) \div 10}

TailPoints == 0..4

\* The steps between the points the loop appends in this specification.
RawSteps == {0, Unit, 2 * Unit, (35 * Unit) \div 10}

RECURSIVE RawFrom(_, _, _)
\* The ways the loop can go on from the tracks t with at most n more points:
\* it stops at the first point at or beyond the distance d.
RawFrom(t, d, n) ==
  IF t[Len(t)] >= d THEN {t}
  ELSE IF n = 0 THEN {}
  ELSE UNION {RawFrom(Append(t, t[Len(t)] + st), d, n - 1) : st \in RawSteps}

\* The tracks at the end of the while loop: they start at 0, never go back,
\* and the last point is the first at or beyond the distance.
RawTracks(d) == RawFrom(<<0>>, d, MaxRaw)

\* _get_tracks_internal after its while loop.
TailInit ==
  /\ CtlAt("synth_tail")
  /\ distance \in TailDistances
  /\ target_points \in TailPoints
  /\ tracks \in RawTracks(distance)
  /\ current = tracks[Len(tracks)]
  /\ old_current = 0
  /\ max_velocity = 0
  /\ acceleration_phase = 0
  /\ deceleration_start = 0
  /\ dt = 0
  /\ velocity = 0
  /\ cleaned_tracks = <<>>
  /\ slider_track = [kind |-> "absent", width |-> 0]
  /\ page_size = [raises |-> FALSE, width |-> 0]
  /\ final_distance = 0

\* The draws of the overshoot U(2, 8), of the point after it U(-1, 2) and
\* of the final point U(-1, 1), relative to the distance.
OvershootDraws == {2 * Unit, (45 * Unit) \div 10, 8 * Unit}

SettleDraws == {-Unit, 2 * Unit}

FinalDraws == {-Unit, 0, Unit}

\* The points appended after the loop: with probability 0.3 the overshoot
\* and the point after it, then always the final point.
SynthTail ==
  /\ pc = "synth_tail"
  /\ \E over \in BOOLEAN, o \in OvershootDraws, st \in SettleDraws,
        f \in FinalDraws :
       tracks' = tracks
                   \o (IF over THEN <<distance + o, distance + st>> ELSE <<>>)
                   \o <<distance + f>>
  /\ pc' = "cleanup"
  /\ UNCHANGED <<browser, page, max_retries, attempt, slide_attempt, Refresh,
                 jitterSet, strategy_name, trajectory, i, slide_ret, ops,
                 navigated, driverUsed, solve_ret, result, found_count,
                 browser_cookies, distance, target_points, max_velocity,
                 acceleration_phase, deceleration_start, dt, current,
                 old_current, velocity, cleaned_tracks,
                 estVars>>

\* The draws of the corrected position's step U(0.1, 1.0).
CorrectionDraws == {Unit \div 10, Unit}

Abs(x) == IF x < 0 THEN -x ELSE x

RECURSIVE CleanFrom_KeepsNear(_, _, _, _, _)
\* The cleanup loop without the test that drops a point closer than 1.5 to
\* last_pos.
CleanFrom_KeepsNear(tr, k, cleaned, last_pos, draws) ==
  IF k > Len(tr) THEN cleaned
  ELSE LET current_pos == tr[k] IN
    IF current_pos >= last_pos \/ last_pos - current_pos < 3 * Unit
      THEN CleanFrom_KeepsNear(tr, k + 1, Append(cleaned, current_pos),
                               current_pos, draws)
    ELSE CleanFrom_KeepsNear(tr, k + 1, Append(cleaned, last_pos + draws[k]),
                             last_pos + draws[k], draws)

RECURSIVE CleanFrom(_, _, _, _, _)
\* The cleanup loop from index k on (1-based), with cleaned and last_pos as
\* they stand and draws[k] the draw of the correction for tr[k]: a point
\* closer than 1.5 to last_pos is dropped; a point ahead, or less than 3
\* behind, is kept; any other is replaced by a position ahead of last_pos.
CleanFrom(tr, k, cleaned, last_pos, draws) ==
  IF k > Len(tr) THEN cleaned
  ELSE LET current_pos == tr[k] IN
    IF Abs(current_pos - last_pos) < (15 * Unit) \div 10
      THEN CleanFrom(tr, k + 1, cleaned, last_pos, draws)
    ELSE IF current_pos >= last_pos \/ last_pos - current_pos < 3 * Unit
      THEN CleanFrom(tr, k + 1, Append(cleaned, current_pos), current_pos, draws)
    ELSE CleanFrom(tr, k + 1, Append(cleaned, last_pos + draws[k]),
                   last_pos + draws[k], draws)

\* No cleanup at all: the tracks are taken as they are.
Cleanup_KeepsAll(tr, draws) == tr

\* The cleanup pass over the tracks tr.
Cleanup(tr, draws) == CleanFrom(tr, 2, <<tr[1]>>, tr[1], draws)

\* A sampling that takes the first points of the cleaned tracks.
Resample_FirstPoints(cleaned, points) ==
  IF points # 0 /\ Len(cleaned) > points
    THEN SubSeq(cleaned, 1, points)
    ELSE cleaned

\* The sampling: with a point count and more cleaned points than that, the
\* first point, the points at int(i * step) for i in 1..points-2, and the
\* last point; otherwise the cleaned tracks.
Resample(cleaned, points) ==
  IF points # 0 /\ Len(cleaned) > points
    THEN <<cleaned[1]>>
           \o (IF points > 2
                 THEN [k \in 1..(points - 2) |->
                         cleaned[Min((k * Len(cleaned)) \div points,
                                     Len(cleaned) - 1) + 1]]
                 ELSE <<>>)
           \o <<cleaned[Len(cleaned)]>>
    ELSE cleaned

\* [int(x) for x in cleaned_tracks], for positions that are not negative.
IntTracks(tr) == [k \in 1..Len(tr) |-> tr[k] \div Unit]

\* The cleanup pass, the sampling and the conversion to integers; the
\* synthesizer returns.  The points of the loop never go back, so only the
\* up to three points appended after it can need a correction draw.
CleanAndSample ==
  /\ pc = "cleanup"
  /\ \E draws \in [Max(1, Len(tracks) - 2)..Len(tracks) -> CorrectionDraws] :
       /\ cleaned_tracks' = Cleanup(tracks, draws)
       /\ trajectory' = IntTracks(Resample(cleaned_tracks', target_points))
  /\ pc' = "synth_done"
  /\ UNCHANGED <<browser, page, max_retries, attempt, slide_attempt, Refresh,
                 jitterSet, strategy_name, i, slide_ret, ops, navigated,
                 driverUsed, solve_ret, result, found_count, browser_cookies,
                 distance, target_points, max_velocity, acceleration_phase,
                 deceleration_start, dt, current, old_current, velocity,
                 tracks, estVars>>

TailNext ==
  \/ SynthTail
  \/ CleanAndSample

\* The tail of the synthesizer on its own.
TailSpec == TailInit /\ [][TailNext]_vars

\* ------------------------------------------- calculate_slide_distance
\* Widths of the track rect, in px: none positive, small, medium and large.
TrackWidths == {-10, 0, 1, 100, 285, 300, 667, 690, 1000}

\* What slider_track can be: no element, an element whose rect raises, an
\* element without a rect, an element with a rect of some width.
TrackStates ==
  {[kind |-> k, width |-> 0] : k \in {"absent", "raises", "norect"}}
    \cup {[kind |-> "rect", width |-> w] : w \in TrackWidths}

\* Widths of the page, around the two thresholds.
PageWidths == {800, 1366, 1367, 1920, 1921}

\* What self.page.size can do: raise, or give a width.
PageStates ==
  {[raises |-> TRUE, width |-> 0]}
    \cup {[raises |-> FALSE, width |-> w] : w \in PageWidths}

\* The draws of slide_ratio U(0.70, 0.90), in hundredths.
RatioDraws == {70, 80, 90}

\* The draws of distance_variation, randint(-20, 20).
VariationDraws == {-20, 0, 20}

\* The draws of randint(1, 50) in the exception handler.
DefaultDraws == {1, 25, 50}

\* track_width after the first block: the rect's width when there is a
\* rect of positive width, None (0 here, as false as None) otherwise.
TrackWidth(track) ==
  IF track.kind = "rect" /\ track.width > 0 THEN track.width ELSE 0

\* final_distance without the clamp.
TrackDistance_Unclamped(track_width, slide_ratio, distance_variation) ==
  ((track_width * slide_ratio) \div 100) + distance_variation

\* final_distance = max(200, min(600, calculated_distance + variation)),
\* with calculated_distance = int(track_width * slide_ratio).
TrackDistance(track_width, slide_ratio, distance_variation) ==
  LET calculated_distance == (track_width * slide_ratio) \div 100
  IN  Max(200, Min(600, calculated_distance + distance_variation))

\* The values randint(lo, hi) is drawn from: both ends and the middle.
RandInt(lo, hi) == {lo, (lo + hi) \div 2, hi}

\* base_distance by the width of the page.
BaseDistances(page_width) ==
  IF page_width <= 1366 THEN RandInt(250, 320)
  ELSE IF page_width <= 1920 THEN RandInt(300, 400)
  ELSE RandInt(350, 480)

\* The call of calculate_slide_distance with some track and some page.
EstInit ==
  /\ CtlAt("est")
  /\ distance = 0
  /\ target_points = 0
  /\ max_velocity = 0
  /\ acceleration_phase = 0
  /\ deceleration_start = 0
  /\ dt = 0
  /\ current = 0
  /\ old_current = 0
  /\ velocity = 0
  /\ tracks = <<>>
  /\ cleaned_tracks = <<>>
  /\ slider_track \in TrackStates
  /\ page_size \in PageStates
  /\ final_distance = 0

\* A positive track width is known: the distance is computed from it.
EstFromTrack ==
  /\ pc = "est"
  /\ TrackWidth(slider_track) > 0
  /\ \E slide_ratio \in RatioDraws, distance_variation \in VariationDraws :
       final_distance' =
         TrackDistance(TrackWidth(slider_track), slide_ratio,
                       distance_variation)
  /\ pc' = "est_done"
  /\ UNCHANGED <<browser, page, max_retries, attempt, slide_attempt, Refresh,
                 jitterSet, strategy_name, trajectory, i, slide_ret, ops,
                 navigated, driverUsed, solve_ret, result, found_count,
                 browser_cookies, synthVars, slider_track, page_size>>

\* No track width: the function goes on to the page width.
EstNoTrack ==
  /\ pc = "est"
  /\ TrackWidth(slider_track) = 0
  /\ pc' = "est_fallback"
  /\ UNCHANGED <<browser, page, max_retries, attempt, slide_attempt, Refresh,
                 jitterSet, strategy_name, trajectory, i, slide_ret, ops,
                 navigated, driverUsed, solve_ret, result, found_count,
                 browser_cookies, synthVars, estVars>>

\* The page gives its size: the distance is drawn by the width's tier.
EstFallback ==
  /\ pc = "est_fallback"
  /\ ~page_size.raises
  /\ final_distance' \in BaseDistances(page_size.width)
  /\ pc' = "est_done"
  /\ UNCHANGED <<browser, page, max_retries, attempt, slide_attempt, Refresh,
                 jitterSet, strategy_name, trajectory, i, slide_ret, ops,
                 navigated, driverUsed, solve_ret, result, found_count,
                 browser_cookies, synthVars, slider_track, page_size>>

\* self.page.size raises: the handler returns 350 + randint(1, 50).
EstExcept ==
  /\ pc = "est_fallback"
  /\ page_size.raises
  /\ \E r \in DefaultDraws : final_distance' = 350 + r
  /\ pc' = "est_done"
  /\ UNCHANGED <<browser, page, max_retries, attempt, slide_attempt, Refresh,
                 jitterSet, strategy_name, trajectory, i, slide_ret, ops,
                 navigated, driverUsed, solve_ret, result, found_count,
                 browser_cookies, synthVars, slider_track, page_size>>

EstNext ==
  \/ EstFromTrack
  \/ EstNoTrack
  \/ EstFallback
  \/ EstExcept

\* The distance estimator on its own.
EstSpec == EstInit /\ [][EstNext]_vars

\* ----------------------------------------- the step loop of simulate_slide
\* The longest trajectory handed to the step loop on its own.
MaxDragPoints == 3

\* The trajectories handed to the step loop on its own: as in TrajDomain,
\* with room for a step inside the hesitation window after step 1.
DragDomain ==
  UNION { { t \in [1..n -> 0..(3 * n)] :
              /\ t[1] = 0
              /\ t[2] > 0
              /\ \A k \in 1..(n - 1) : t[k + 1] - t[k] \in StepDeltas }
          : n \in 2..MaxDragPoints }

\* simulate_slide at the start of its step loop, in one of the first three
\* attempts of a session: the hover and the hold have returned.
DragInit ==
  /\ pc = "steps"
  /\ browser = TRUE
  /\ page = TRUE
  /\ max_retries = 3
  /\ slide_attempt \in 1..3
  /\ attempt = slide_attempt - 1
  /\ found_count = slide_attempt
  /\ Refresh = FALSE
  /\ jitterSet \in BOOLEAN
  /\ jitterSet => slide_attempt > 1
  /\ strategy_name = SlidingMode(slide_attempt, FALSE)
  /\ trajectory \in DragDomain
  /\ i = 0
  /\ slide_ret = "none"
  /\ ops = << Op("hover", 0, "ok"), Op("hold", 0, "ok") >>
  /\ navigated = TRUE
  /\ driverUsed = TRUE
  /\ solve_ret = [success |-> FALSE, cookies_str |-> None]
  /\ result = Pending
  /\ browser_cookies = [raised |-> FALSE, jar |-> <<>>]
  /\ distance = 0
  /\ target_points = 0
  /\ max_velocity = 0
  /\ acceleration_phase = 0
  /\ deceleration_start = 0
  /\ dt = 0
  /\ current = 0
  /\ old_current = 0
  /\ velocity = 0
  /\ tracks = <<>>
  /\ cleaned_tracks = <<>>
  /\ slider_track = [kind |-> "absent", width |-> 0]
  /\ page_size = [raises |-> FALSE, width |-> 0]
  /\ final_distance = 0

DragNext ==
  \/ SkipStep
  \/ MoveStep

\* The step loop of simulate_slide on its own.
DragSpec == DragInit /\ [][DragNext]_vars

\* ------------------------------------------------------------------ claims
\* The positions inside the body of the for loop.
InIteration ==
  pc \in {"engage", "locate", "nf_oracle", "strategy", "hover", "hold",
          "fallback", "steps", "release", "verify", "except"}

\* solve_slider has returned (True, cookies).
DeclaredSuccess == pc = "solve_ret" /\ solve_ret.success

\* The pointer calls made on the control in a log.
PointerOps(log) ==
  At(log, "hover") \cup At(log, "hold") \cup At(log, "move")
    \cup At(log, "hesitate") \cup At(log, "adjust") \cup At(log, "release")

\* The moves of the step loop in a log.
StepMoveOps(log) == At(log, "move") \cup At(log, "hesitate")

\* The last call of a non-empty log raised out of the try block of the
\* iteration (navigate, reload and release are called outside any inner try).
RaisedOut(log) ==
  /\ log # <<>>
  /\ log[Len(log)].res = "raise"
  /\ log[Len(log)].op \in {"navigate", "reload", "release"}

\* C1: solve_slider runs at most max_retries loop iterations; when none is
\* declared successful every one of them was run, solve_slider returns
\* (False, None) and run returns None.
C1_AttemptsBounded ==
  /\ attempt <= max_retries
  /\ InIteration => attempt < max_retries
  /\ (pc \in {"solve_ret", "done"} /\ ~solve_ret.success) =>
       /\ solve_ret.cookies_str = None
       /\ page => attempt = max_retries
       /\ pc = "done" => result = None

C1_Witness ==
  /\ pc = "done"
  /\ max_retries >= 2
  /\ attempt = max_retries
  /\ slide_attempt >= 1
  /\ ~solve_ret.success
  /\ result = None

NotFound(log) == AtRes(log, "locate", "none") # {}

\* C4: in an iteration that does not find the control no pointer call is
\* made and slide_attempt keeps its value; when the oracle reports no failure
\* solve_slider returns success in that iteration, otherwise the iteration
\* ends and the loop goes on.
C4_NotFoundBranch ==
  [][ /\ NotFound(ops') => PointerOps(ops') = {}
      /\ pc = "locate" /\ pc' = "nf_oracle" => slide_attempt' = slide_attempt
      /\ pc = "nf_oracle" =>
           /\ slide_attempt' = slide_attempt
           /\ At(ops', "oracle") = {Len(ops')}
           /\ IF ReportsFailure(ops'[Len(ops')].res)
                THEN pc' = "loop" /\ attempt' = attempt + 1 /\ ~solve_ret'.success
                ELSE pc' = "solve_ret" /\ attempt' = attempt /\ solve_ret'.success
      /\ pc = "loop" /\ NotFound(ops) /\ attempt < max_retries => pc' = "engage"
    ]_vars

C4_Witness ==
  /\ DeclaredSuccess
  /\ max_retries = 1
  /\ NotFound(ops)
  /\ slide_attempt = 0
  /\ PointerOps(ops) = {}

\* C5: the pointer calls of an attempt come in the order hover, hold, step
\* moves, release: every step move follows a hold that returned, the release
\* follows every move and a hold that returned, every hold follows the hover,
\* and at most one hold returns and at most one release is called.
C5_PointerOrder ==
  LET held == AtRes(ops, "hold", "ok")
      rel  == At(ops, "release")
  IN  /\ \A m \in StepMoveOps(ops) \cup At(ops, "adjust") : \E h \in held : h < m
      /\ \A r \in rel :
           /\ \E h \in held : h < r
           /\ \A m \in StepMoveOps(ops) \cup At(ops, "adjust") : m < r
      /\ \A h \in At(ops, "hold") : \E v \in At(ops, "hover") : v < h
      /\ Cardinality(held) <= 1
      /\ Cardinality(rel) <= 1
      /\ Cardinality(At(ops, "hover")) <= 1

C5_Witness ==
  /\ pc = "verify"
  /\ AtRes(ops, "hover", "ok") # {}
  /\ AtRes(ops, "move", "ok") # {}
  /\ AtRes(ops, "release", "ok") # {}

\* The calls that open an iteration.
EngageOps(log) == At(log, "navigate") \cup At(log, "reload") \cup At(log, "retryclick")

\* C6: navigate is called only in the first iteration; a later iteration
\* calls reload when self.Refresh is set at its start and the retry click
\* otherwise; the control is located only after exactly one such call has
\* returned, and after a reload that returned the flag is clear.
C6_EngageOrder ==
  [][ /\ pc = "engage" =>
           /\ Len(ops') = 1
           /\ ops'[1].op = IF attempt = 0 THEN "navigate"
                           ELSE IF Refresh THEN "reload" ELSE "retryclick"
           /\ ops'[1].op # "reload" => Refresh' = Refresh
      /\ At(ops', "navigate") \ At(ops, "navigate") # {} => attempt = 0
      /\ At(ops', "locate") # {} =>
           /\ EngageOps(ops') = {1}
           /\ ops'[1].res = "ok"
           /\ \A k \in At(ops', "locate") : k > 1
      /\ pc' = "locate" /\ At(ops', "reload") # {} => ~Refresh'
    ]_vars

C6_Witness ==
  /\ pc = "locate"
  /\ attempt > 0
  /\ AtRes(ops, "reload", "ok") # {}
  /\ ~Refresh

\* C7 (as claimed): when the hold and the fallback hold both raise, the
\* attempt makes no step move and no release and is never declared
\* successful.
C7_HoldFailureFails ==
  (At(ops, "hold") # {} /\ AtRes(ops, "hold", "ok") = {} /\ slide_ret = "False") =>
    /\ StepMoveOps(ops) = {}
    /\ At(ops, "release") = {}
    /\ ~DeclaredSuccess

\* C8 (as claimed): after an executed drag an attempt is declared successful
\* only when the oracle was evaluated and found no failure signal; an oracle
\* whose query raised does not make the attempt successful.
C8_AmbiguousIsFailure ==
  (DeclaredSuccess /\ AtRes(ops, "release", "ok") # {}) =>
    \A o \in At(ops, "oracle") : ops[o].res = "clear"

\* C9: when init_browser fails run returns None at once: solve_slider is not
\* entered, no driver call is made and slide_attempt keeps its value.
C9_SetupFailureAborts ==
  [][ pc = "run" /\ ~page' =>
        /\ pc' = "done"
        /\ result' = None
        /\ ~driverUsed' /\ ~navigated'
        /\ UNCHANGED <<attempt, slide_attempt, Refresh, ops, solve_ret>>
    ]_vars

C9_Witness ==
  /\ pc = "done"
  /\ ~page
  /\ result = None
  /\ slide_attempt = 0
  /\ ~driverUsed

\* C10: once the hold has returned, the oracle is queried only after the
\* release has returned; an attempt whose oracle was queried is declared
\* successful exactly when the oracle reported no failure; with
\* max_retries = 1, the control found and a failure reported, solve_slider
\* returns (False, None) with slide_attempt = 1 and run returns None.
C10_VerifyAfterRelease ==
  /\ \A o \in At(ops, "oracle") :
       /\ AtRes(ops, "hold", "ok") # {} => \E r \in AtRes(ops, "release", "ok") : r < o
       /\ DeclaredSuccess <=> ~ReportsFailure(ops[o].res)
       /\ pc \in {"loop", "solve_ret"}
  /\ (pc = "solve_ret" /\ max_retries = 1 /\ AtRes(ops, "locate", "found") # {}
        /\ AtRes(ops, "oracle", "fail") # {}) =>
       /\ solve_ret = [success |-> FALSE, cookies_str |-> None]
       /\ slide_attempt = 1
  /\ pc = "done" => (result = None <=> ~solve_ret.success)

C10_Witness ==
  /\ pc = "solve_ret"
  /\ max_retries = 1
  /\ AtRes(ops, "release", "ok") # {}
  /\ AtRes(ops, "oracle", "fail") # {}
  /\ slide_attempt = 1
  /\ ~solve_ret.success

\* C11: when the control was found in every iteration so far and the oracle
\* reports no failure after the drag of iteration k, solve_slider returns
\* success with a string in that iteration with slide_attempt = k; after a
\* declared success run returns a string with no further iteration and no
\* further driver call logged, and nothing happens after run has returned.
C11_SuccessAtKth ==
  [][ /\ (pc = "verify" /\ ~ReportsFailure(ops'[Len(ops')].res)) =>
           /\ pc' = "solve_ret"
           /\ solve_ret'.success /\ solve_ret'.cookies_str.kind = "str"
           /\ attempt' = attempt /\ slide_attempt' = slide_attempt
           /\ found_count = attempt + 1 => slide_attempt' = attempt + 1
      /\ DeclaredSuccess =>
           /\ pc' = "done"
           /\ result'.kind = "str"
           /\ ops' = <<>>
           /\ UNCHANGED <<attempt, slide_attempt, found_count, navigated,
                          driverUsed, Refresh, solve_ret>>
      /\ pc = "done" => UNCHANGED vars
    ]_vars

C11_Witness ==
  /\ pc = "done"
  /\ result.kind = "str"
  /\ max_retries = 4
  /\ attempt = 2
  /\ found_count = 3
  /\ slide_attempt = 3

\* Every entry of a jar is a cookie with a name and a value.
WellFormed(jar) == \A k \in 1..Len(jar) : jar[k].dict

\* C12: when run has returned, its result is None exactly when no attempt
\* was declared successful (a failed setup included); on success it is the
\* string of the cookies the driver returned, each as name=value, joined by
\* "; " in the driver's order (the empty string for no cookies).
C12_CookieResult ==
  pc = "done" =>
    /\ result = None <=> ~solve_ret.success
    /\ ~page => result = None
    /\ solve_ret.success =>
         /\ result.kind = "str"
         /\ (~browser_cookies.raised /\ WellFormed(browser_cookies.jar)) =>
              /\ Len(browser_cookies.jar) = 0 => result.val = ""
              /\ Len(browser_cookies.jar) = 2 =>
                   result.val =
                     browser_cookies.jar[1].name \o "=" \o browser_cookies.jar[1].value
                       \o "; " \o
                     browser_cookies.jar[2].name \o "=" \o browser_cookies.jar[2].value

C12_Witness ==
  /\ pc = "done"
  /\ solve_ret.success
  /\ ~browser_cookies.raised
  /\ Len(browser_cookies.jar) = 2
  /\ WellFormed(browser_cookies.jar)
  /\ result = Str("sid=1; t=")

\* The mode words that occur in a name.
ModesIn(name) == {name[k] : k \in 1..Len(name)} \cap ModeTags

\* C13: the mode named for an attempt depends on slide_attempt alone: it is
\* cautious for 1, 4, 7, ..., impatient for 2, 5, 8, ... and reflective for
\* 3, 6, 9, ..., whatever self.Refresh and the draws are; simulate_slide takes
\* the attempt for impatient exactly for 2, 5, 8, ..., and only the other
\* attempts make a hesitation move or a corrective move before the release.
C13_ModeByIndex ==
  strategy_name # <<>> =>
    /\ slide_attempt >= 1
    /\ ModesIn(strategy_name) =
         { IF slide_attempt % 3 = 1 THEN "cautious"
           ELSE IF slide_attempt % 3 = 2 THEN "impatient"
           ELSE "reflective" }
    /\ IsImpatient(strategy_name) <=> slide_attempt % 3 = 2
    /\ slide_attempt % 3 = 2 =>
         At(ops, "hesitate") \cup At(ops, "adjust") = {}

C13_Witness ==
  /\ pc = "verify"
  /\ slide_attempt = 4
  /\ Refresh
  /\ strategy_name = <<"round", "2", "cautious", "[refresh]">>
  /\ At(ops, "hesitate") # {}
  /\ AtRes(ops, "release", "ok") # {}

\* C14: self.Refresh turns from False to True only in the strategy selection
\* of an attempt with slide_attempt in 4, 7, 10, ...; no other step sets it.
C14_RefreshOnlyLaterCautious ==
  [][ (~Refresh /\ Refresh') =>
        /\ pc = "strategy"
        /\ slide_attempt % 3 = 1
        /\ slide_attempt >= 4
        /\ slide_attempt' = slide_attempt
    ]_vars

C14_Witness ==
  /\ pc = "hover"
  /\ Refresh
  /\ slide_attempt = 4
  /\ ops[1].op = "retryclick"

\* C18 (as claimed): the main loop of the synthesizer terminates: the
\* position reaches the distance and the loop is left.
C18_LoopTerminates == <>(pc = "synth_tail")

\* C15 (as claimed): the sequence the synthesizer returns is not empty, its
\* first element is 0 and its last element L satisfies
\* distance - 1 <= L <= distance + 8.
C15_EndpointBounds ==
  pc = "synth_done" =>
    /\ Len(trajectory) >= 1
    /\ trajectory[1] = 0
    /\ distance - Unit <= trajectory[Len(trajectory)] * Unit
    /\ trajectory[Len(trajectory)] * Unit <= distance + 8 * Unit

\* C16: in the cleaned tracks (before the sampling) no point lies more than
\* 3 units behind the point before it.
C16_NoBackwardJump ==
  pc = "synth_done" =>
    /\ Len(cleaned_tracks) >= 1
    /\ cleaned_tracks[1] = tracks[1]
    /\ \A k \in 1..(Len(cleaned_tracks) - 1) :
         cleaned_tracks[k] - cleaned_tracks[k + 1] <= 3 * Unit

C16_Witness ==
  /\ pc = "synth_done"
  /\ \E k \in 1..(Len(tracks) - 1) : tracks[k] - tracks[k + 1] >= 3 * Unit
  /\ \E k \in 1..(Len(cleaned_tracks) - 1) :
       cleaned_tracks[k + 1] < cleaned_tracks[k]

\* C17 (as claimed): for a point count P >= 1, when the cleaned tracks have
\* more than P points the returned sequence has exactly P points, otherwise
\* it has as many points as the cleaned tracks.
C17_SampledLength ==
  (pc = "synth_done" /\ target_points >= 1) =>
    IF Len(cleaned_tracks) > target_points
      THEN Len(trajectory) = target_points
      ELSE Len(trajectory) = Len(cleaned_tracks)

\* C19: the distance estimator never raises, and the distance it returns
\* lies in [200, 600] when a positive track width is known, otherwise in
\* [250, 320], [300, 400] or [350, 480] by the width of the page, and in
\* [351, 400] when the page gives no size either.
C19_EstimateBounds ==
  /\ pc # "est_raised"
  /\ pc = "est_done" =>
       IF TrackWidth(slider_track) > 0
         THEN final_distance \in 200..600
       ELSE IF page_size.raises
         THEN final_distance \in 351..400
       ELSE IF page_size.width <= 1366
         THEN final_distance \in 250..320
       ELSE IF page_size.width <= 1920
         THEN final_distance \in 300..400
       ELSE final_distance \in 350..480

\* A wide track whose computed distance is cut down to 600.
C19_Witness ==
  /\ pc = "est_done"
  /\ slider_track = [kind |-> "rect", width |-> 1000]
  /\ final_distance = 600

C22_IndexIsIteration ==
  pc \in {"strategy", "hover", "hold", "fallback", "steps", "release"} =>
    slide_attempt = attempt + 1

\* C23: self.Refresh is sticky: once set it is cleared by nothing but the
\* reload of a later iteration, made because the flag is set, when that
\* reload has returned.
C23_RefreshSticky ==
  [][ (Refresh /\ ~Refresh') =>
        /\ pc = "engage"
        /\ attempt # 0
        /\ ops' = Append(ops, Op("reload", 0, "ok"))
    ]_vars

\* The flag, set in this iteration, is still set after the drag, its release
\* and a failed verification.
C23_Witness ==
  /\ pc = "loop"
  /\ Refresh
  /\ strategy_name[Len(strategy_name)] = "[refresh]"
  /\ AtRes(ops, "release", "ok") # {}
  /\ AtRes(ops, "oracle", "fail") # {}

\* C24: self.slide_attempt never decreases; it grows by exactly 1 when an
\* iteration finds the control, before the distance is estimated, and by
\* nothing else, so that it equals the number of iterations that went on to
\* a drag and never exceeds max_retries.
C24_CountsFoundIterations ==
  /\ [][ slide_attempt' # slide_attempt =>
           /\ pc = "locate"
           /\ pc' = "strategy"
           /\ AtRes(ops', "locate", "found") # {}
           /\ slide_attempt' = slide_attempt + 1
       ]_vars
  /\ [] ( /\ slide_attempt = found_count
          /\ slide_attempt <= max_retries
          /\ pc = "strategy" => slide_attempt >= 1 )

\* Three iterations are over: two found the control, and one, which did
\* not, left the count as it was.
C24_Witness ==
  /\ pc = "loop"
  /\ attempt = 3
  /\ slide_attempt = 2
  /\ NotFound(ops)

RECURSIVE SubseqAt(_, _)
\* The elements of seq at the indices in S, in the order of the indices.
SubseqAt(seq, S) ==
  IF S = {} THEN <<>>
  ELSE LET m == CHOOSE x \in S : \A y \in S : x <= y
       IN  <<seq[m]>> \o SubseqAt(seq, S \ {m})

\* C25: when the sampling applies (more cleaned points than the point count
\* P, P >= 2), its result holds P points of the cleaned tracks, taken at
\* strictly increasing indices, the first and the last index among them; the
\* returned trajectory is that result, point by point.
C25_SampleIsSubsequence ==
  (pc = "synth_done" /\ target_points >= 2
     /\ Len(cleaned_tracks) > target_points) =>
    /\ \E S \in SUBSET (1..Len(cleaned_tracks)) :
         /\ Cardinality(S) = target_points
         /\ 1 \in S
         /\ Len(cleaned_tracks) \in S
         /\ Resample(cleaned_tracks, target_points) = SubseqAt(cleaned_tracks, S)
    /\ trajectory = IntTracks(Resample(cleaned_tracks, target_points))

\* Six cleaned points, the last ones not in order, sampled down to four.
C25_Witness ==
  /\ pc = "synth_done"
  /\ target_points = 4
  /\ Len(cleaned_tracks) >= 6
  /\ \E k \in 1..(Len(cleaned_tracks) - 1) :
       cleaned_tracks[k + 1] < cleaned_tracks[k]
  /\ Len(trajectory) = 4

\* C26: a pass of the main loop never moves the position back and never
\* advances it by more than 15 units, whatever the velocity and whether or
\* not the pass slipped: a position behind the old one is replaced by one
\* ahead of it, a step of more than 15 units by one of 8 to 15.
C26_PassBounds ==
  pc \in {"synth_pass", "synth_pass_done"} =>
    /\ current >= old_current
    /\ current - old_current <= 15 * Unit
    /\ velocity * dt > 15 * Unit => current - old_current >= 8 * Unit

\* A pass at a velocity that carries further than 15 units was cut to 8.
C26_Witness ==
  /\ pc = "synth_pass_done"
  /\ velocity * dt > 15 * Unit
  /\ current - old_current = 8 * Unit

\* C27: the trajectory the synthesizer returns has at least two points,
\* starts at 0, and its second point lies ahead of the first: step 0 of the
\* drag is skipped and step 1, which draws the drift trend and the
\* direction, is not, so every later step of the attempt reads the values
\* step 1 has drawn.
C27_StepOneNotSkipped ==
  pc = "synth_done" =>
    /\ Len(trajectory) >= 2
    /\ OffsetX(trajectory, 0) = 0
    /\ OffsetX(trajectory, 1) >= 1

\* The loop stood still at first and the tracks came back behind the
\* overshoot: the second point returned is the first one 1.5 or more ahead.
C27_Witness ==
  /\ pc = "synth_done"
  /\ Len(tracks) >= 4
  /\ tracks[2] = 0
  /\ Len(cleaned_tracks) < Len(tracks)
  /\ trajectory[2] > 0
  /\ Len(trajectory) >= 3

\* C28: in an attempt whose hold has returned, the release is called exactly
\* once, after every move of the drag, before the attempt's verification and
\* before the next iteration starts, whichever of the step moves, the
\* hesitation move and the corrective move raise; the hold returns at most
\* once in an attempt.
C28_ReleaseExactlyOnce ==
  /\ Cardinality(AtRes(ops, "hold", "ok")) <= 1
  /\ (AtRes(ops, "hold", "ok") # {} /\ pc \notin {"steps", "release"}) =>
       /\ Cardinality(At(ops, "release")) = 1
       /\ \A r \in At(ops, "release") :
            /\ \A m \in StepMoveOps(ops) \cup At(ops, "adjust") : m < r
            /\ \A o \in At(ops, "oracle") : r < o
            /\ \E h \in AtRes(ops, "hold", "ok") : h < r

\* The hesitation move, the forward move and the corrective move all raised;
\* the release was called and the oracle queried after it.
C28_Witness ==
  /\ AtRes(ops, "hesitate", "raise") # {}
  /\ AtRes(ops, "move", "raise") # {}
  /\ AtRes(ops, "adjust", "raise") # {}
  /\ Cardinality(At(ops, "release")) = 1
  /\ At(ops, "oracle") # {}

\* C29 (as claimed): in the trajectory the synthesizer returns, after the
\* sampling and the conversion to integers, no point lies more than 3 units
\* behind the point before it.
C29_ReturnedNoBackwardJump ==
  pc = "synth_done" =>
    \A k \in 1..(Len(trajectory) - 1) : trajectory[k] - trajectory[k + 1] <= 3

RECURSIVE SumDx(_, _)
\* The sum of the horizontal deltas of the step moves among the first k
\* calls of a log.
SumDx(log, k) ==
  IF k = 0 THEN 0
  ELSE SumDx(log, k - 1) + (IF k \in StepMoveOps(log) THEN log[k].dx ELSE 0)

C31_NavigatedBeforeLocate ==
  (At(ops, "locate") # {} \/ At(ops, "hold") # {}) => navigated

====
